---- MODULE Spec2Model ----
(***************************************************************************)
(* A model of the option valuation classes of qfrm: Basket, Boston,        *)
(* ForwardStart, LowExercisePrice and Spread.  One option object is alive  *)
(* at a time; valuation calls are made on it one after the other in one    *)
(* Python process, whose numpy random generator is the variable rng.       *)
(*                                                                         *)
(* Floating point numbers are fixed-point integers: the real x is the      *)
(* integer x * Scale, and every product and quotient is rounded down to a  *)
(* multiple of 1/Scale.                                                    *)
(***************************************************************************)
EXTENDS Integers, Sequences, FiniteSets, TLC

\* ------------------------------------------------------------------------
\* Bounds of the model
\* ------------------------------------------------------------------------
Scale == 1000
ExpTerms == 8
MaxSteps == 2
MaxPaths == 2
RngMod == 8

\* ------------------------------------------------------------------------
\* Fixed-point arithmetic (float *, /, math.exp, math.sqrt, math.log)
\* ------------------------------------------------------------------------
Mul(x, y) == (x * y) \div Scale

Div(x, y) == (x * Scale) \div y

Max(x, y) == IF x >= y THEN x ELSE y

RECURSIVE Pow(_, _)
Pow(x, k) == IF k = 0 THEN Scale ELSE Mul(Pow(x, k - 1), x)

RECURSIVE ExpSum(_, _, _)
ExpSum(x, term, k) ==
    IF k > ExpTerms THEN 0
    ELSE term + ExpSum(x, (term * x) \div (k * Scale), k + 1)

\* math.exp: a Taylor sum on [0, 1], halving the argument above it
RECURSIVE Exp(_)
Exp(x) ==
    IF x < 0 THEN Div(Scale, Exp(0 - x))
    ELSE IF x > Scale THEN LET h == Exp(x \div 2) IN Mul(h, h)
    ELSE ExpSum(x, Scale, 1)

RECURSIVE ISqrtIn(_, _, _)
ISqrtIn(n, lo, hi) ==
    IF lo >= hi THEN lo
    ELSE LET mid == (lo + hi + 1) \div 2
         IN  IF mid * mid <= n THEN ISqrtIn(n, mid, hi)
             ELSE ISqrtIn(n, lo, mid - 1)

\* the square root of a non-negative fixed-point number
Sqrt(x) == ISqrtIn(x * Scale, 0, 40000)

RECURSIVE LogIn(_, _, _)
LogIn(x, lo, hi) ==
    IF lo >= hi THEN lo
    ELSE LET mid == (lo + hi + 1) \div 2
         IN  IF Exp(mid) <= x THEN LogIn(x, mid, hi)
             ELSE LogIn(x, lo, mid - 1)

\* the natural logarithm of a positive fixed-point number
Log(x) == LogIn(x, 0 - 6 * Scale, 6 * Scale)

RECURSIVE SumSeq(_)
SumSeq(s) == IF s = << >> THEN 0 ELSE Head(s) + SumSeq(Tail(s))

\* numpy.mean of a non-empty tuple
Mean(s) == SumSeq(s) \div Len(s)

\* ------------------------------------------------------------------------
\* The numpy random generator of the process
\* ------------------------------------------------------------------------
SeedValue == 10987

\* numpy.random.seed(v): the generator state is a function of v alone
Seed(v) == v % RngMod

RngNext(s) == (5 * s + 3) % RngMod

RECURSIVE RngAfter(_, _)
RngAfter(s, k) == IF k = 0 THEN s ELSE RngNext(RngAfter(s, k - 1))

\* the standard normal variate the generator gives on reaching state s
Z(s) == ((s % 5) - 2) * (Scale \div 2)

\* numpy.random.normal(size=k) from state s; the state afterwards is
\* RngAfter(s, k)
Normal(s, k) == [i \in 1..k |-> Z(RngAfter(s, i))]

\* ------------------------------------------------------------------------
\* PriceSpec, the result container of a valuation
\* ------------------------------------------------------------------------
NoPx == 0 - 1
NoTree == << >>
NoLT == [dt |-> 0, u |-> 0, d |-> 0, a |-> 0, p |-> 0, df_T |-> 0, df_dt |-> 0]

\* PriceSpec(method=, nsteps=, npaths=, keep_hist=, T_s=): no price, no
\* history
PriceSpec(method, nsteps, npaths, keep_hist, T_s) ==
    [method |-> method, nsteps |-> nsteps, npaths |-> npaths,
     keep_hist |-> keep_hist, T_s |-> T_s, px |-> NoPx, sub_method |-> "",
     LT_specs |-> NoLT, ref_tree |-> NoTree, opt_tree |-> NoTree]

\* the PriceSpec of an option on which nothing has been priced
EmptySpec == PriceSpec("", 0, 0, FALSE, 0)

\* ------------------------------------------------------------------------
\* Outcomes of a call
\* ------------------------------------------------------------------------
\* the call returned v ("self", "None", "False") leaving px_spec ps and the
\* generator in state g
Returned(v, ps, g, w) == [ret |-> v, exc |-> "", ps |-> ps, rng |-> g, warned |-> w]

\* the call raised exception e leaving px_spec ps and the generator in g
Raised(e, ps, g, w) == [ret |-> "raise", exc |-> e, ps |-> ps, rng |-> g, warned |-> w]

\* ------------------------------------------------------------------------
\* OptionValuation.LT_specs: the lattice parameters
\* ------------------------------------------------------------------------
signCP(right) == IF right = "call" THEN 1 ELSE 0 - 1

\* [ok |-> FALSE, exc |-> e] when the call raises, else the parameters
LT_specs(self, nsteps) ==
    IF nsteps = 0 THEN [ok |-> FALSE, exc |-> "ZeroDivisionError", sp |-> NoLT]
    ELSE
    LET dt == self.T \div nsteps
        u == Exp(Mul(self.ref.vol, Sqrt(dt)))
        d == Div(Scale, u)
        a == Exp(Mul(self.rf_r - self.ref.q, dt))
    IN  IF u = d THEN [ok |-> FALSE, exc |-> "ZeroDivisionError", sp |-> NoLT]
        ELSE
        LET p == Div(a - d, u - d)
            sp == [dt |-> dt, u |-> u, d |-> d, a |-> a, p |-> p,
                   df_T |-> Exp(0 - Mul(self.rf_r, self.T)),
                   df_dt |-> Exp(0 - Mul(self.rf_r, dt))]
        IN  IF p < 0 \/ p > Scale
            THEN [ok |-> FALSE, exc |-> "InvalidLatticeParameters", sp |-> sp]
            ELSE [ok |-> TRUE, exc |-> "", sp |-> sp]

\* ------------------------------------------------------------------------
\* The binomial lattice
\* ------------------------------------------------------------------------
\* S0 * d ** arange(n, -1, -1) * u ** arange(0, n + 1)
TerminalPrices(S0, sp, n) ==
    [i \in 1..(n + 1) |-> Mul(Mul(S0, Pow(sp.d, n - (i - 1))), Pow(sp.u, i - 1))]

\* maximum(sign * (S - K), 0), elementwise
Payout(sign, S, K) == [i \in 1..Len(S) |-> Max(sign * (S[i] - K), 0)]

\* df_dt * ((1 - p) * O[:i] + p * O[1:])
StepBack(sp, O, i) ==
    [j \in 1..i |-> Mul(sp.df_dt, Mul(Scale - sp.p, O[j]) + Mul(sp.p, O[j + 1]))]

\* d * S, the whole layer
PriorPricesUnsliced(sp, S, i) == [j \in 1..Len(S) |-> Mul(sp.d, S[j])]

\* d * S[1:i + 1]
PriorPrices(sp, S, i) == [j \in 1..i |-> Mul(sp.d, S[j + 1])]

\* the continuation values alone
EarlyExerciseNone(O, P) == O

\* maximum(O, Payout), elementwise
EarlyExercise(O, P) == [j \in 1..Len(O) |-> Max(O[j], P[j])]

\* Boston._calc_LT, the loop "for i in range(n, 0, -1)" from step i down:
\* the arrays S and O and the two trees when the loop ends
RECURSIVE BostonLoop(_, _, _, _, _, _, _)
BostonLoop(self, sp, i, S, O, S_tree, O_tree) ==
    IF i = 0 THEN [S |-> S, O |-> O, S_tree |-> S_tree, O_tree |-> O_tree]
    ELSE LET O1 == StepBack(sp, O, i)
             S1 == PriorPrices(sp, S, i)
             O2 == EarlyExercise(O1, Payout(signCP(self.right), S1, self.K))
         IN  BostonLoop(self, sp, i - 1, S1, O2, <<S1>> \o S_tree, <<O2>> \o O_tree)

\* the root left as the loop ends
BostonNoFutureValue(self, O) == O

\* O *= math.exp(self.rf_r * self.T): the premium is paid at expiry
BostonFutureValue(self, O) == [j \in 1..Len(O) |-> Mul(O[j], Exp(Mul(self.rf_r, self.T)))]

\* Boston._calc_LT from the terminal layer on, with lattice parameters sp
BostonValuation(self, sp, n, g) ==
    LET ps == self.px_spec
        keep_hist == ps.keep_hist
        S == TerminalPrices(self.ref.S0, sp, n)
        O == Payout(signCP(self.right), S, self.K)
        end == BostonLoop(self, sp, n, S, O, <<S>>, <<O>>)
        Of == BostonFutureValue(self, end.O)
    IN  Returned("self",
                 [ps EXCEPT !.px = Of[1], !.method = "LT",
                            !.sub_method = "binomial tree; Hull Ch.13",
                            !.LT_specs = sp,
                            !.ref_tree = IF keep_hist THEN end.S_tree ELSE NoTree,
                            !.opt_tree = IF keep_hist THEN end.O_tree ELSE NoTree],
                 g, FALSE)

\* the step count a lattice call reads from px_spec: getattr(.., 'nsteps', 3)
StepsOf(ps) == IF ps.nsteps = 0 THEN 3 ELSE ps.nsteps

\* Boston._calc_LT going on with whatever LT_specs derived
Boston_calc_LT_Unrefused(self, g) ==
    BostonValuation(self, LT_specs(self, StepsOf(self.px_spec)).sp, StepsOf(self.px_spec), g)

\* Boston._calc_LT; g is the state of the random generator.  An exception
\* of LT_specs ends the call before anything is stored.
Boston_calc_LT(self, g) ==
    LET n == StepsOf(self.px_spec)
        lt == LT_specs(self, n)
    IN  IF ~lt.ok THEN Raised(lt.exc, self.px_spec, g, FALSE)
        ELSE BostonValuation(self, lt.sp, n, g)

\* LowExercisePrice._calc_LT, the loop "for i in range(n, 0, -1)"
RECURSIVE LepoLoop(_, _, _, _, _, _)
LepoLoop(sp, i, S, O, S_tree, O_tree) ==
    IF i = 0 THEN [S |-> S, O |-> O, S_tree |-> S_tree, O_tree |-> O_tree]
    ELSE LET O1 == StepBack(sp, O, i)
             S1 == PriorPrices(sp, S, i)
         IN  LepoLoop(sp, i - 1, S1, O1, <<S1>> \o S_tree, <<O1>> \o O_tree)

\* insert(cumsum(log(arange(n) + 1)), 0, 0)[k]: the logarithm of k!
RECURSIVE csl(_)
csl(k) == IF k = 0 THEN 0 ELSE csl(k - 1) + Log(k * Scale)

\* the binomial sum discounted over one step instead of the whole term
LepoDirectStepDiscount(sp, n, O) ==
    LET tmp == [i \in 1..(n + 1) |->
                   csl(n) - csl(i - 1) - csl(n - (i - 1))
                   + Log(sp.p) * (i - 1) + Log(Scale - sp.p) * (n - (i - 1))]
    IN  Mul(sp.df_dt, SumSeq([i \in 1..(n + 1) |-> Mul(Exp(tmp[i]), O[i])]))

\* df_T * sum(exp(tmp) * tuple(O)), the binomial sum in log space
LepoDirect(sp, n, O) ==
    LET tmp == [i \in 1..(n + 1) |->
                   csl(n) - csl(i - 1) - csl(n - (i - 1))
                   + Log(sp.p) * (i - 1) + Log(Scale - sp.p) * (n - (i - 1))]
    IN  Mul(sp.df_T, SumSeq([i \in 1..(n + 1) |-> Mul(Exp(tmp[i]), O[i])]))

LepoStrike == Scale \div 100

\* LowExercisePrice._calc_LT
LowExercisePrice_calc_LT(self, g) ==
    LET ps == self.px_spec
        n == StepsOf(ps)
        lt == LT_specs(self, n)
    IN  IF ~lt.ok THEN Raised(lt.exc, ps, g, FALSE)
        ELSE
        LET S == TerminalPrices(self.ref.S0, lt.sp, n)
            O == Payout(1, S, LepoStrike)
            end == LepoLoop(lt.sp, n, S, O, <<S>>, <<O>>)
            S_tree == IF ps.keep_hist THEN end.S_tree ELSE NoTree
            O_tree == IF ps.keep_hist THEN end.O_tree ELSE NoTree
            out == IF ps.keep_hist THEN O_tree[1][1] ELSE LepoDirect(lt.sp, n, O)
        IN  Returned("self",
                     [ps EXCEPT !.px = out,
                                !.sub_method = "Binomial tree with the strike price is $0.01; Hull Ch.135",
                                !.LT_specs = lt.sp,
                                !.ref_tree = S_tree, !.opt_tree = O_tree],
                     g, FALSE)

\* ------------------------------------------------------------------------
\* Basket: Monte Carlo over a batch of correlated increments
\* ------------------------------------------------------------------------
\* dot(dot(diag(vol), corrM), diag(vol))
CovM(vol, corrM) ==
    [i \in 1..Len(vol) |-> [j \in 1..Len(vol) |-> Mul(Mul(vol[i], corrM[i][j]), vol[j])]]

Abs(x) == IF x < 0 THEN 0 - x ELSE x

\* whether a symmetric 2 x 2 matrix is positive semi-definite
IsPSD(c) ==
    /\ c[1][1] >= 0
    /\ c[2][2] >= 0
    /\ c[1][1] * c[2][2] - c[1][2] * c[2][1] >= 0

\* the factor numpy takes of a 2 x 2 covariance matrix to colour the
\* standard normal draws; it is computed from magnitudes, so a matrix that
\* is not positive semi-definite has a factor as well
CovFactor(c) ==
    LET l11 == Sqrt(Abs(c[1][1]))
        l21 == IF l11 = 0 THEN 0 ELSE Div(c[2][1], l11)
        l22 == Sqrt(Abs(c[2][2] - Mul(l21, l21)))
    IN  [l11 |-> l11, l21 |-> l21, l22 |-> l22]

\* tuple(zip(*multivariate_normal(repeat(0, 2), covM, nsteps))) drawn from
\* generator state g: one tuple of nsteps increments for each asset
MultivariateNormalT(covM, nsteps, g) ==
    LET L == CovFactor(covM)
        zs == Normal(g, 2 * nsteps)
    IN  << [t \in 1..nsteps |-> Mul(L.l11, zs[2 * t - 1])],
           [t \in 1..nsteps |-> Mul(L.l21, zs[2 * t - 1]) + Mul(L.l22, zs[2 * t])] >>

\* an Euler step whose shock scales with deltat, not its square root
calSLinearTime(St, mu, sigma, param, deltat) ==
    St + (Mul(Mul(mu, St), deltat) + Mul(Mul(Mul(sigma, St), param), deltat))

\* calS: one Euler step of one asset
calS(St, mu, sigma, param, deltat) ==
    St + (Mul(Mul(mu, St), deltat) + Mul(Mul(Mul(sigma, St), param), Sqrt(deltat)))

\* one_path: the nsteps + 1 prices of one asset
RECURSIVE one_path(_, _, _, _, _, _)
one_path(S0, mu, vol, param, deltat, nsteps) ==
    IF nsteps = 0 THEN <<S0>>
    ELSE LET S == one_path(S0, mu, vol, param, deltat, nsteps - 1)
         IN  Append(S, calS(S[Len(S)], mu, vol, param[nsteps], deltat))

\* a batch drawn anew in the i-th pass of the path loop
PathParamRedrawn(covM, nsteps, g, i) ==
    MultivariateNormalT(covM, nsteps, RngAfter(g, 2 * nsteps * (i - 1)))

\* the increments the i-th pass of "for i in range(npaths)" reads: the
\* batch drawn once before the loop, from generator state g
PathParam(covM, nsteps, g, i) == MultivariateNormalT(covM, nsteps, g)

\* wprice of the i-th pass: the weighted basket value at each time
WPrice(self, covM, deltat, g, i) ==
    LET param == PathParam(covM, self.nsteps, g, i)
        price == [a \in 1..Len(self.ref.vol) |->
                     one_path(self.ref.S0[a], self.mu[a], self.ref.vol[a],
                              param[a], deltat, self.nsteps)]
    IN  [t \in 1..(self.nsteps + 1) |->
            SumSeq([a \in 1..Len(self.ref.vol) |-> Mul(price[a][t], self.weight[a])])]

\* the price Basket._calc_MC stores when it does not raise
BasketPx(self) ==
    LET deltat == self.T \div self.nsteps
        covM == CovM(self.ref.vol, self.corr)
        g == Seed(SeedValue)
        priceNpath == [i \in 1..self.npaths |-> WPrice(self, covM, deltat, g, i)]
        terminal == [i \in 1..self.npaths |-> priceNpath[i][self.nsteps + 1]]
        payoff == Max(0, signCP(self.right) * (Mean(terminal) - self.K))
    IN  Mul(payoff, Exp(0 - Mul(self.rf_r, self.T)))

\* Basket._calc_MC
Basket_calc_MC(self, g) ==
    IF self.nsteps = 0 THEN Raised("TypeError", self.px_spec, g, FALSE)
    ELSE
    LET g2 == RngAfter(Seed(SeedValue), 2 * self.nsteps)
        warned == ~IsPSD(CovM(self.ref.vol, self.corr))
    IN  IF self.npaths = 0 THEN Raised("TypeError", self.px_spec, g2, warned)
        ELSE Returned("self",
                      [self.px_spec EXCEPT !.px = BasketPx(self),
                                           !.sub_method = "standard; Hull p.612"],
                      g2, warned)

\* ------------------------------------------------------------------------
\* scipy.stats.norm.cdf, by its logistic approximation
\* ------------------------------------------------------------------------
Clamp(x, lo, hi) == IF x < lo THEN lo ELSE IF x > hi THEN hi ELSE x

NormCdf(x) ==
    Div(Scale, Scale + Exp(0 - Clamp((1702 * x) \div 1000, 0 - 6 * Scale, 6 * Scale)))

\* ------------------------------------------------------------------------
\* Spread
\* ------------------------------------------------------------------------
NoStock == [S0 |-> 0, vol |-> 0, q |-> 0, none |-> TRUE]

\* a square root that raises nothing below zero
SqrtOrZero(x) == [ok |-> TRUE, v |-> IF x < 0 THEN 0 ELSE Sqrt(x)]

\* math.sqrt: [ok |-> FALSE] is ValueError, math domain error
MathSqrt(x) == IF x < 0 THEN [ok |-> FALSE, v |-> 0] ELSE [ok |-> TRUE, v |-> Sqrt(x)]

\* Spread._calc_BS
Spread_calc_BS(self, g) ==
    IF self.S2.none THEN Raised("AttributeError", self.px_spec, g, FALSE)
    ELSE
    LET v2 == MathSqrt(Mul(self.ref.vol, self.ref.vol)
                       - 2 * Mul(Mul(self.rho, self.ref.vol), self.S2.vol)
                       + Mul(self.S2.vol, self.S2.vol))
    IN  IF ~v2.ok THEN Raised("ValueError", self.px_spec, g, FALSE)
        ELSE
        LET vol == v2.v
            sT == Mul(vol, Sqrt(self.T))
            F2 == Mul(self.S2.S0, Exp(0 - Mul(self.S2.q, self.T)))
            F1 == Mul(self.ref.S0, Exp(0 - Mul(self.ref.q, self.T)))
        IN  IF sT = 0 \/ F1 = 0 THEN Raised("ZeroDivisionError", self.px_spec, g, FALSE)
            ELSE IF F2 = 0 THEN Raised("ValueError", self.px_spec, g, FALSE)
            ELSE
            LET d0 == Mul(Div(Scale, sT), Log(Div(F2, F1)))
                d2 == d0 - sT \div 2
                d1 == d0 + sT \div 2
                p == Mul(F2, NormCdf(d1)) - Mul(F1, NormCdf(d2))
            IN  Returned("self", [self.px_spec EXCEPT !.px = p, !.method = "BS"], g, FALSE)

\* the simulated prices of one leg: S.append(S[-1] * (mu + vol * w[t]) + S[-1])
RECURSIVE SpreadPath(_, _, _, _, _)
SpreadPath(S0, mu, vol, w, k) ==
    IF k = 0 THEN <<S0>>
    ELSE LET S == SpreadPath(S0, mu, vol, w, k - 1)
         IN  Append(S, Mul(S[Len(S)], mu + Mul(vol, w[k])) + S[Len(S)])

\* the discounted payoff of the pass of "for path in range(0, npaths)" that
\* starts with the generator in state g
SpreadPathValue(self, sp, sq, nsteps, g) ==
    LET u0 == Normal(g, nsteps)
        v0 == Normal(RngAfter(g, nsteps), nsteps)
        v1 == [t \in 1..nsteps |-> Mul(self.rho, u0[t]) + Mul(sq, v0[t])]
        u == [t \in 1..nsteps |-> Mul(u0[t], Sqrt(sp.dt))]
        v == [t \in 1..nsteps |-> Mul(v1[t], Sqrt(sp.dt))]
        mu_1 == Mul(self.rf_r - self.ref.q, sp.dt)
        mu_2 == Mul(self.rf_r - self.S2.q, sp.dt)
        S1 == SpreadPath(self.ref.S0, mu_1, self.ref.vol, u, nsteps)
        S2 == SpreadPath(self.S2.S0, mu_2, self.S2.vol, v, nsteps)
    IN  Mul(Max(signCP(self.right) * (S2[Len(S2)] - S1[Len(S1)] - self.K), 0),
            Exp(0 - Mul(self.rf_r, self.T)))

\* one generator state read by every pass
PathRngShared(g, nsteps, i) == g

\* the generator state at the start of the i-th pass of the path loop: each
\* earlier pass drew u and v, nsteps variates each
PathRng(g, nsteps, i) == RngAfter(g, 2 * nsteps * (i - 1))

\* the path count Spread._calc_MC reads: getattr(_, 'npaths', 3)
PathsOf(ps) == IF ps.npaths = 0 THEN 3 ELSE ps.npaths

\* mean(opt_vals) of Spread._calc_MC when the loop runs with lattice
\* parameters sp from generator state g
SpreadPx(self, sp, sq, g) ==
    Mean([i \in 1..PathsOf(self.px_spec) |->
            SpreadPathValue(self, sp, sq, StepsOf(self.px_spec),
                            PathRng(g, StepsOf(self.px_spec), i))])

\* Spread._calc_MC
Spread_calc_MC(self, g) ==
    LET ps == self.px_spec
        npaths == PathsOf(ps)
        nsteps == StepsOf(ps)
        lt == LT_specs(self, npaths)
        sq == MathSqrt(Scale - Mul(self.rho, self.rho))
    IN  IF ~lt.ok THEN Raised(lt.exc, ps, g, FALSE)
        ELSE IF ~sq.ok THEN Raised("ValueError", ps, RngAfter(g, 2 * nsteps), FALSE)
        ELSE IF self.S2.none THEN Raised("AttributeError", ps, RngAfter(g, 2 * nsteps), FALSE)
        ELSE
        Returned("self", [ps EXCEPT !.px = SpreadPx(self, lt.sp, sq.v, g), !.method = "MC"],
                 RngAfter(g, 2 * nsteps * npaths), FALSE)

\* ------------------------------------------------------------------------
\* ForwardStart
\* ------------------------------------------------------------------------
NoK == 0 - 1

\* ForwardStart._calc_BS
ForwardStart_calc_BS(self, g) ==
    LET ps == self.px_spec
        S0 == self.ref.S0
        T == self.T
        T_s == ps.T_s
        vol == self.ref.vol
        r == self.rf_r
        q == self.ref.q
        K == IF self.K = NoK THEN S0 ELSE self.K
    IN  IF self.right \notin {"call", "put"} THEN Returned("False", ps, g, FALSE)
        ELSE IF ~(vol >= 0 /\ T > 0 /\ T_s >= 0 /\ S0 >= 0 /\ K >= 0 /\ r >= 0 /\ q >= 0)
        THEN Raised("AssertionError", ps, g, FALSE)
        ELSE IF K = 0 THEN Raised("ZeroDivisionError", ps, g, FALSE)
        ELSE IF S0 = 0 THEN Raised("ValueError", ps, g, FALSE)
        ELSE IF Mul(vol, Sqrt(T)) = 0 THEN Raised("ZeroDivisionError", ps, g, FALSE)
        ELSE
        LET d1 == Div(Log(Div(S0, K)) + Mul(r - q + Mul(vol, vol) \div 2, T), Mul(vol, Sqrt(T)))
            d2 == d1 - Mul(vol, Sqrt(T))
            px == IF self.right = "call"
                  THEN Mul(Mul(Mul(S0, Exp(0 - Mul(q, T))), NormCdf(d1))
                           - Mul(Mul(K, Exp(0 - Mul(r, T))), NormCdf(d2)),
                           Exp(0 - Mul(q, T_s)))
                  ELSE Mul(Mul(Mul(K, Exp(0 - Mul(r, T))), NormCdf(0 - d2))
                           - Mul(Mul(S0, Exp(0 - Mul(q, T))), NormCdf(0 - d1)),
                           Exp(0 - Mul(q, T_s)))
        IN  Returned("self", [ps EXCEPT !.px = px, !.method = "BS"], g, FALSE)

\* ------------------------------------------------------------------------
\* The state: one option object, the random generator, the last call
\* ------------------------------------------------------------------------
VARIABLES
    o,      \* the option object: its class, contract fields and px_spec
    rng,    \* the state of the numpy random generator of the process
    out     \* the last call made on o and how it ended

vars == <<o, rng, out>>

Methods == {"BS", "LT", "MC", "FD"}

\* a step count or path count passed to calc_px; 0 stands for None
StepArgs == 0..MaxSteps
PathArgs == 0..MaxPaths

S(x, y) == (x * Scale) \div y

\* the stocks and contracts the options are constructed with
Stock1(S0, vol, q) == [S0 |-> S0, vol |-> vol, q |-> q]

Option(cls, ref, right, K, T, rf_r) ==
    [cls |-> cls, ref |-> ref, right |-> right, K |-> K, T |-> T, rf_r |-> rf_r,
     mu |-> << >>, weight |-> << >>, corr |-> << >>, npaths |-> 0, nsteps |-> 0,
     rho |-> 0, S2 |-> NoStock, px_spec |-> EmptySpec]

BostonOptions ==
    {Option("Boston", Stock1(50 * Scale, S(3, 10), 0), right, 52 * Scale, 2 * Scale, S(5, 100))
        : right \in {"put", "call"}}
    \cup {Option("Boston", Stock1(50 * Scale, S(5, 100), 0), "put", 52 * Scale, 2 * Scale, S(3, 10))}

LowExercisePriceOptions ==
    {Option("LowExercisePrice", Stock1(S(196, 10), S(3, 10), 0), "none", NoK, 5 * Scale, S(1, 10)),
     Option("LowExercisePrice", Stock1(S(196, 10), S(5, 100), 0), "none", NoK, 2 * Scale, S(3, 10))}

BasketOptions ==
    {Option("Basket", Stock1(<<30 * Scale, 50 * Scale>>, <<S(2, 10), S(15, 100)>>, 0),
            "put", 55 * Scale, 3 * Scale, S(5, 100))}

SpreadOptions ==
    {Option("Spread", Stock1(30 * Scale, S(2, 10), 0), "call", 0, 2 * Scale, S(5, 100))}

ForwardStartOptions ==
    {Option("ForwardStart", Stock1(50 * Scale, S(15, 100), S(5, 100)), right, NoK, S(5, 10), S(1, 10))
        : right \in {"call", "none"}}
    \cup {Option("ForwardStart", Stock1(50 * Scale, 0, S(5, 100)), "call", NoK, S(5, 10), S(1, 10))}

Options ==
    BostonOptions \cup LowExercisePriceOptions \cup BasketOptions
    \cup SpreadOptions \cup ForwardStartOptions

\* the arguments the calls are made with
Mus == {<<S(6, 100), S(5, 100)>>}
Weights == {<<S(4, 10), S(6, 10)>>}
Corrs == {<<<<Scale, c>>, <<c, Scale>>>> : c \in {S(7, 10), 2 * Scale}}
Rhos == {S(4, 10), 2 * Scale}
Stocks2 == {[S0 |-> 31 * Scale, vol |-> S(3, 10), q |-> 0, none |-> FALSE]}
StartTimes == {S(5, 10), 0 - S(5, 10)}

NoCall == [call |-> "", ret |-> "", exc |-> "", warned |-> FALSE]

Init ==
    /\ o \in Options
    /\ rng \in 0..(RngMod - 1)
    /\ out = NoCall

\* the call named call was made on the object self, whose attributes the
\* wrapper had set, and ended as r
Finish(call, self, r) ==
    /\ o' = [self EXCEPT !.px_spec = r.ps]
    /\ rng' = r.rng
    /\ out' = [call |-> call, ret |-> r.ret, exc |-> r.exc, warned |-> r.warned]

\* the calls enumerated: step and path counts are passed to the method that
\* simulates, and left out (None) in calls of the other methods
GivenFor(method, simulating, nsteps, npaths) ==
    method # simulating => (nsteps = 0 /\ npaths = 0)

\* a new option replaces the one at hand
Construct ==
    /\ \E n \in Options : o' = n
    /\ out' = NoCall
    /\ UNCHANGED rng

\* getattr(self, '_calc_' + method.upper())() of Basket
Basket_dispatch(self, g) ==
    IF self.px_spec.method = "MC" THEN Basket_calc_MC(self, g)
    ELSE Returned("self", self.px_spec, g, FALSE)

\* Basket.calc_px
Basket_calc_px ==
    /\ o.cls = "Basket"
    /\ \E method \in Methods, mu \in Mus, weight \in Weights, corr \in Corrs,
          nsteps \in StepArgs, npaths \in PathArgs, keep_hist \in BOOLEAN :
          LET self == [o EXCEPT !.px_spec = PriceSpec(method, nsteps, npaths, keep_hist, 0),
                                !.mu = mu, !.weight = weight, !.corr = corr,
                                !.npaths = npaths, !.nsteps = nsteps]
          IN  /\ GivenFor(method, "MC", nsteps, npaths)
              /\ Finish("Basket.calc_px", self, Basket_dispatch(self, rng))

\* Boston.calc_px: the body is the docstring alone
Boston_calc_px ==
    /\ o.cls = "Boston"
    /\ \E method \in Methods, nsteps \in StepArgs, npaths \in PathArgs, keep_hist \in BOOLEAN :
          Finish("Boston.calc_px", o, Returned("None", o.px_spec, rng, FALSE))

\* Boston._calc_LT called on an option whose px_spec the caller has set,
\* since Boston.calc_px sets none
Boston_LT ==
    /\ o.cls = "Boston"
    /\ \E nsteps \in StepArgs, keep_hist \in BOOLEAN :
          LET self == [o EXCEPT !.px_spec = PriceSpec("LT", nsteps, 0, keep_hist, 0)]
          IN  Finish("Boston._calc_LT", self, Boston_calc_LT(self, rng))

\* getattr(self, '_calc_' + method.upper())() of ForwardStart
ForwardStart_dispatch(self, g) ==
    IF self.px_spec.method = "BS" THEN ForwardStart_calc_BS(self, g)
    ELSE Returned("self", self.px_spec, g, FALSE)

\* ForwardStart.calc_px
ForwardStart_calc_px ==
    /\ o.cls = "ForwardStart"
    /\ \E T_s \in StartTimes, method \in Methods, keep_hist \in BOOLEAN :
          LET self == [o EXCEPT !.px_spec = PriceSpec(method, 0, 0, keep_hist, T_s)]
          IN  Finish("ForwardStart.calc_px", self, ForwardStart_dispatch(self, rng))

\* getattr(self, '_calc_' + method.upper())() of LowExercisePrice
LowExercisePrice_dispatch(self, g) ==
    IF self.px_spec.method = "LT" THEN LowExercisePrice_calc_LT(self, g)
    ELSE Returned("self", self.px_spec, g, FALSE)

\* LowExercisePrice.calc_px
LowExercisePrice_calc_px ==
    /\ o.cls = "LowExercisePrice"
    /\ \E method \in Methods, nsteps \in StepArgs, keep_hist \in BOOLEAN :
          LET self == [o EXCEPT !.px_spec = PriceSpec(method, nsteps, 0, keep_hist, 0)]
          IN  Finish("LowExercisePrice.calc_px", self, LowExercisePrice_dispatch(self, rng))

\* getattr(self, '_calc_' + method.upper())() of Spread
Spread_dispatch(self, g) ==
    IF self.px_spec.method = "MC" THEN Spread_calc_MC(self, g)
    ELSE IF self.px_spec.method = "BS" THEN Spread_calc_BS(self, g)
    ELSE Returned("self", self.px_spec, g, FALSE)

\* Spread.calc_px
Spread_calc_px ==
    /\ o.cls = "Spread"
    /\ \E method \in Methods, S2 \in Stocks2, rho \in Rhos,
          nsteps \in StepArgs, npaths \in PathArgs, keep_hist \in BOOLEAN :
          LET self == [o EXCEPT !.px_spec = PriceSpec(method, nsteps, npaths, keep_hist, 0),
                                !.rho = rho, !.S2 = S2]
          IN  /\ GivenFor(method, "MC", nsteps, npaths)
              /\ nsteps = 0 <=> npaths = 0
              /\ Finish("Spread.calc_px", self, Spread_dispatch(self, rng))

Next ==
    \/ Construct
    \/ Basket_calc_px
    \/ Boston_calc_px
    \/ Boston_LT
    \/ ForwardStart_calc_px
    \/ LowExercisePrice_calc_px
    \/ Spread_calc_px

Spec == Init /\ [][Next]_vars

\* ------------------------------------------------------------------------
\* Properties
\* ------------------------------------------------------------------------
BasketMC == out.call = "Basket.calc_px" /\ o.px_spec.method = "MC"

SpreadMC == out.call = "Spread.calc_px" /\ o.px_spec.method = "MC"

LatticeCall ==
    \/ out.call = "Boston._calc_LT"
    \/ out.call = "LowExercisePrice.calc_px" /\ o.px_spec.method = "LT"

InputsOf(a) ==
    [a EXCEPT !.px_spec.px = NoPx, !.px_spec.LT_specs = NoLT,
              !.px_spec.ref_tree = NoTree, !.px_spec.opt_tree = NoTree]

\* C2: a valuation call made again with identical inputs on the same option
\* yields the same price, whatever came before it
C2_PriceDependsOnInputsOnly ==
    [][(/\ out.ret = "self" /\ out'.ret = "self"
        /\ out'.call = out.call
        /\ InputsOf(o') = InputsOf(o))
       => o'.px_spec.px = o.px_spec.px]_vars

\* the derived risk-neutral probability of the last lattice call lies
\* outside [0, 1]
POutOfRange ==
    LET sp == LT_specs(o, StepsOf(o.px_spec)).sp
    IN  sp.u # sp.d /\ (Div(sp.a - sp.d, sp.u - sp.d) < 0 \/ Div(sp.a - sp.d, sp.u - sp.d) > Scale)

C4_SpreadRefusesInfeasibleRho ==
    (SpreadMC /\ Abs(o.rho) > Scale /\ o.px_spec.npaths >= 1 /\ o.px_spec.nsteps >= 1)
        => (out.ret = "raise" /\ o.px_spec.px = NoPx)

C4_Witness ==
    SpreadMC /\ Abs(o.rho) > Scale /\ out.exc = "ValueError" /\ o.px_spec.px = NoPx

\* C5: a Basket Monte Carlo call whose covariance matrix is not positive
\* semi-definite ends in an error and stores no price
C5_BasketRefusesNonPSD ==
    (BasketMC /\ ~IsPSD(CovM(o.ref.vol, o.corr)))
        => (out.ret = "raise" /\ o.px_spec.px = NoPx)

\* a PriceSpec as calc_px creates it, before any pricing function adds to it
FreshUnpriced(ps) ==
    ps.method # "" /\ ps = PriceSpec(ps.method, ps.nsteps, ps.npaths, ps.keep_hist, ps.T_s)

WrapperCall ==
    out.call \in {"Basket.calc_px", "Spread.calc_px", "LowExercisePrice.calc_px",
                  "ForwardStart.calc_px"}

\* C6: a calc_px call that ends in an error leaves no freshly created
\* PriceSpec lacking a price, and one that returns leaves a price
C6_NoPartialResult ==
    WrapperCall =>
        /\ out.ret = "raise" => ~FreshUnpriced(o.px_spec)
        /\ out.ret # "raise" => o.px_spec.px # NoPx

\* the layers of a tree of n steps: n + 1 of them, the i-th of i entries
WellLayered(tree, n) ==
    /\ Len(tree) = n + 1
    /\ \A i \in 1..(n + 1) : Len(tree[i]) = i

\* C7: the trees a lattice call of n steps retains have n + 1 layers in
\* time-ascending order, layer i of i + 1 entries (counting from 0)
C7_TreeLayers ==
    (LatticeCall /\ out.ret = "self" /\ o.px_spec.keep_hist) =>
        LET n == StepsOf(o.px_spec)
        IN  /\ WellLayered(o.px_spec.ref_tree, n)
            /\ WellLayered(o.px_spec.opt_tree, n)
            /\ o.px_spec.ref_tree[n + 1] = TerminalPrices(o.ref.S0, o.px_spec.LT_specs, n)

C7_Witness ==
    /\ out.call = "Boston._calc_LT" /\ out.ret = "self" /\ o.px_spec.keep_hist
    /\ Len(o.px_spec.ref_tree) = MaxSteps + 1
    /\ Len(o.px_spec.opt_tree[MaxSteps + 1]) = MaxSteps + 1

\* the history a PriceSpec carries: trees, paths or increments
HasHist(ps) == ps.ref_tree # NoTree \/ ps.opt_tree # NoTree

\* C8: after a lattice, Spread Monte Carlo or Basket Monte Carlo call
\* returns, px_spec carries history exactly when keep_hist was asked for
C8_HistoryIffKeepHist ==
    ((LatticeCall \/ SpreadMC \/ BasketMC) /\ out.ret = "self")
        => (HasHist(o.px_spec) <=> o.px_spec.keep_hist)

\* C9: calc_px returns the option itself whenever it does not raise
C9_CalcPxReturnsSelf ==
    (out.call \in {"Basket.calc_px", "Boston.calc_px", "ForwardStart.calc_px",
                   "LowExercisePrice.calc_px", "Spread.calc_px"}
     /\ out.ret # "raise") => out.ret = "self"

SpreadMCReturns ==
    out'.call = "Spread.calc_px" /\ o'.px_spec.method = "MC" /\ out'.ret = "self"

\* C11: Spread Monte Carlo evolves each path by nsteps Euler updates whose
\* time step is dt = T / nsteps, so the price stored is the price of the
\* simulation run with that time step
C11_StepIsMaturityOverSteps ==
    [][SpreadMCReturns =>
        o'.px_spec.px =
            SpreadPx(o', [dt |-> o'.T \div StepsOf(o'.px_spec)],
                     MathSqrt(Scale - Mul(o'.rho, o'.rho)).v, rng)]_vars

\* a Boston lattice call returned and kept its trees
BostonTreesKept ==
    out.call = "Boston._calc_LT" /\ out.ret = "self" /\ o.px_spec.keep_hist

\* the immediate-exercise payoff at node j of layer i of the price tree
ExerciseValue(i, j) == Max(signCP(o.right) * (o.px_spec.ref_tree[i][j] - o.K), 0)

\* C12: every node of the option tree of the early-exercise lattice is worth
\* at least the immediate-exercise payoff of its price-tree node, and is
\* never negative
C12_OptionAtLeastExercise ==
    BostonTreesKept =>
        \A i \in 1..Len(o.px_spec.opt_tree) :
            \A j \in 1..Len(o.px_spec.opt_tree[i]) :
                /\ o.px_spec.opt_tree[i][j] >= ExerciseValue(i, j)
                /\ o.px_spec.opt_tree[i][j] >= 0

\* a put whose early exercise binds at a node before expiry
C12_Witness ==
    /\ BostonTreesKept /\ o.right = "put" /\ Len(o.px_spec.opt_tree) >= 3
    /\ \E i \in 1..(Len(o.px_spec.opt_tree) - 1) :
          \E j \in 1..i :
              o.px_spec.opt_tree[i][j] = ExerciseValue(i, j) /\ ExerciseValue(i, j) > 0

\* the price of asset a after t additive Euler updates from S0 with time
\* step dt = T / nsteps, driven by the increments Zs
RECURSIVE BasketEuler(_, _, _)
BasketEuler(Zs, a, t) ==
    IF t = 0 THEN o.ref.S0[a]
    ELSE LET St == BasketEuler(Zs, a, t - 1)
             dt == o.T \div o.nsteps
         IN  St + Mul(Mul(o.mu[a], St), dt)
                + Mul(Mul(Mul(o.ref.vol[a], St), Zs[a][t]), Sqrt(dt))

\* weight . S(T) of one path
BasketTerminal(Zs) ==
    SumSeq([a \in 1..Len(o.weight) |-> Mul(o.weight[a], BasketEuler(Zs, a, o.nsteps))])

\* C13: the Basket Monte Carlo price is exp(-r T) * max(0, sign * (mean over
\* the paths of weight . S(T) - K)), each asset's path being nsteps additive
\* Euler updates from S0 with dt = T / nsteps
C13_PayoffOfAverageTerminal ==
    (BasketMC /\ out.ret = "self") =>
        LET Zs == MultivariateNormalT(CovM(o.ref.vol, o.corr), o.nsteps, Seed(SeedValue))
            avg == Mean([i \in 1..o.npaths |-> BasketTerminal(Zs)])
        IN  o.px_spec.px =
                Mul(Exp(0 - Mul(o.rf_r, o.T)), Max(0, signCP(o.right) * (avg - o.K)))

C13_Witness ==
    /\ BasketMC /\ out.ret = "self" /\ ~out.warned
    /\ o.nsteps = MaxSteps /\ o.npaths = MaxPaths
    /\ o.px_spec.px > 0 /\ o.px_spec.px < o.K

\* the terminal price after k updates S + S * (mu + vol * w[t]) from S0
RECURSIVE SpreadEuler(_, _, _, _, _)
SpreadEuler(S0, mu, vol, w, k) ==
    IF k = 0 THEN S0
    ELSE LET St == SpreadEuler(S0, mu, vol, w, k - 1)
         IN  St + Mul(St, mu + Mul(vol, w[k]))

\* the discounted payoff of path i of self when the generator stood at g
\* before the valuation: the path's u are draws 2n(i-1)+1 .. 2n(i-1)+n of the
\* generator, its v the n draws after them, n the number of steps
OwnDrawsPayoff(self, g, i) ==
    LET n == StepsOf(self.px_spec)
        dt == LT_specs(self, PathsOf(self.px_spec)).sp.dt
        first == 2 * n * (i - 1)
        u == [t \in 1..n |-> Z(RngAfter(g, first + t))]
        v == [t \in 1..n |-> Z(RngAfter(g, first + n + t))]
        w == [t \in 1..n |->
                Mul(self.rho, u[t]) + Mul(Sqrt(Scale - Mul(self.rho, self.rho)), v[t])]
        S1T == SpreadEuler(self.ref.S0, Mul(self.rf_r - self.ref.q, dt), self.ref.vol,
                           [t \in 1..n |-> Mul(u[t], Sqrt(dt))], n)
        S2T == SpreadEuler(self.S2.S0, Mul(self.rf_r - self.S2.q, dt), self.S2.vol,
                           [t \in 1..n |-> Mul(w[t], Sqrt(dt))], n)
    IN  Mul(Max(0, signCP(self.right) * (S2T - S1T - self.K)),
            Exp(0 - Mul(self.rf_r, self.T)))

\* C14: the Spread Monte Carlo price is the average over the paths of the
\* per-path discounted payoff max(0, sign * (S2(T) - S1(T) - K)) * exp(-r T),
\* each path drawing its own pair of increment sequences
\* (u, rho * u + sqrt(1 - rho^2) * v) from the generator
C14_AverageOfOwnDrawPayoffs ==
    [][SpreadMCReturns =>
          /\ o'.px_spec.px =
                Mean([i \in 1..PathsOf(o'.px_spec) |-> OwnDrawsPayoff(o', rng, i)])
          /\ rng' = RngAfter(rng, 2 * StepsOf(o'.px_spec) * PathsOf(o'.px_spec))]_vars

C14_Witness ==
    /\ SpreadMC /\ out.ret = "self"
    /\ PathsOf(o.px_spec) >= 2 /\ StepsOf(o.px_spec) >= 2
    /\ o.px_spec.px > 0

\* a LowExercisePrice lattice valuation that returned with 0 < p < 1
LepoPriced ==
    /\ out.call = "LowExercisePrice.calc_px" /\ o.px_spec.method = "LT"
    /\ out.ret = "self"
    /\ o.px_spec.LT_specs.p > 0 /\ o.px_spec.LT_specs.p < Scale

\* the price the same inputs get with keep_hist flipped
OtherKeepHistPx ==
    LowExercisePrice_calc_LT([o EXCEPT !.px_spec.keep_hist = ~@], rng).ps.px

\* a and b differ by no more than a hundredth of the larger
WithinRounding(a, b) == Abs(a - b) * 100 <= Max(a, b)

\* C15: the LowExercisePrice lattice price does not depend on keep_hist: for
\* inputs with p in (0,1) the backward-induction price (keep_hist = True)
\* equals the direct binomial-sum price (keep_hist = False)
C15_PriceIgnoresKeepHist ==
    LepoPriced => o.px_spec.px = OtherKeepHistPx

\* C15 as amended: the backward-induction price and the direct binomial-sum
\* price of the same inputs agree up to the rounding of the arithmetic
C15_PricesAgreeToRounding ==
    LepoPriced => WithinRounding(o.px_spec.px, OtherKeepHistPx)

C15_Witness ==
    /\ LepoPriced /\ o.px_spec.keep_hist
    /\ StepsOf(o.px_spec) >= 2
    /\ o.px_spec.px # OtherKeepHistPx
    /\ WithinRounding(o.px_spec.px, OtherKeepHistPx)

====
